---- MODULE Spec2Model ----
(***************************************************************************)
(* Model of the stacker crate (src/src/lib.rs): manually instrumented      *)
(* segmented stacks.  A thread calls maybe_grow and remaining_stack from   *)
(* its own code and from inside the closures it passes to maybe_grow.      *)
(* Addresses and sizes are bytes; usize arithmetic is modulo 2^WordBits.   *)
(* Spec is one thread with any inputs, SpecDeep the deep recursion of the  *)
(* crate documentation, SpecThreads two threads under any schedule.        *)
(*                                                                         *)
(* What the source leaves to the build and to the platform is a choice of  *)
(* the initial state or of a step:                                         *)
(*  - env.overflowChecks: usize + and - panic on overflow (debug           *)
(*    assertions) or wrap around;                                          *)
(*  - env.ptr32: cfg!(target_pointer_width = "32"), the entry offset;      *)
(*  - env.supported: whether guess_os_stack_limit finds a limit;           *)
(*  - a query of the prober may report an error: its assert_eq! panics     *)
(*    and the thread-local stays uninitialised;                            *)
(*  - Vec::with_capacity panics ("capacity overflow") above isize::MAX,    *)
(*    makes an empty Vec at a dangling address for capacity 0, and         *)
(*    otherwise returns memory at some free address or aborts the process; *)
(*  - running on a stack that is no memory of the thread is undefined: the *)
(*    process is killed, or runs on with `overflowed` set.                 *)
(* The frames of maybe_grow itself take no stack in the model: the stack   *)
(* pointer f() starts with on the current stack is the one measured.       *)
(***************************************************************************)
EXTENDS Integers, Sequences, FiniteSets, TLC

\* ------------------------------------------------------------------------
\* Bounds of the model
\* ------------------------------------------------------------------------
\* width of usize in the model (scaled down from 32/64 so that TLC's
\* integers can hold every sum)
WordBits == 22
\* deepest nesting of maybe_grow activations
MaxDepth == 2
\* number of maybe_grow calls the thread makes in one behaviour
MaxCalls == 2
\* levels of the deep recursion
DeepLevels == 40

WordMod == 2 ^ WordBits
\* isize::MAX, the largest capacity Vec::with_capacity accepts
ISizeMax == (WordMod \div 2) - 1

\* ------------------------------------------------------------------------
\* Program constants
\* ------------------------------------------------------------------------
\* the guard offset `32 * 1024` of line 112
GuardOffset == 32 * 1024
\* the alignment of line 108
Align == 16
\* the 32-bit entry offset of line 123
Offset32 == 12
\* NonNull::dangling() of an empty Vec<u8>
DanglingPtr == 1

\* ------------------------------------------------------------------------
\* Environment: the OS stack of the thread and the heap
\* ------------------------------------------------------------------------
KiB == 1024
OsStackLow == 64 * KiB
OsStackTop == OsStackLow + 128 * KiB
\* stack pointers at which the thread makes its first call
InitialSps == {OsStackLow + 40 * KiB}
\* the threads of the process; the main thread runs on the OS stack above,
\* every other thread on an OS stack of its own
Threads == {"main", "worker"}
StackLowOf(t) == IF t = "main" THEN OsStackLow ELSE 3072 * KiB
\* addresses the allocator may hand out
HeapBases == {256 * KiB + 16, 1536 * KiB + 16}
\* the inputs of the calls
RedZones == {0, 64 * KiB, WordMod - 1}
StackSizes == {0, 16 * KiB, 80 * KiB + 1, 96 * KiB, ISizeMax + 1, WordMod - 1}
\* values a closure returns and payloads it panics with
Values == {10, 11}
Payloads == {"p1", "p2"}

\* the deep recursion of the crate documentation (line 20):
\* maybe_grow(32 * 1024, 1024 * 1024, ..) at every level, each level pushing
\* less than the red zone
DeepRedZone == 32 * KiB
DeepStackSize == 1024 * KiB
DeepUses == {4 * KiB, 16 * KiB, 31 * KiB, 32 * KiB - 16}

None == <<>>
Some(v) == <<v>>
IsSome(o) == o # <<>>
Unwrap(o) == o[1]

VARIABLES
    env,          \* the build and the platform: fixed after Init
    tid,          \* the thread that is running
    parked,       \* the other threads: what each of them will go on with
    probes,       \* calls of guess_os_stack_limit made by the thread
    probed,       \* the thread-local STACK_LIMIT has been initialised
    STACK_LIMIT,  \* Cell<Option<usize>>
    sp,           \* the stack pointer register
    frames,       \* the active maybe_grow calls, outermost first
    regions,      \* the Vec<u8> of every _grow_the_stack in progress
    unwinding,    \* the panic payload being unwound, if any
    last,         \* how the maybe_grow that ended last left, until the next call
    calls,        \* calls made so far: of maybe_grow, and of remaining_stack
                  \* while STACK_LIMIT was not initialised
    overflowed,   \* the stack pointer has left the stack it runs on
    status        \* "running", "aborted", "crashed"

vars == <<env, tid, parked, probes, probed, STACK_LIMIT, sp, frames, regions, unwinding, last, calls, overflowed, status>>

\* ------------------------------------------------------------------------
\* usize arithmetic
\* ------------------------------------------------------------------------
WrapAdd(a, b) == (a + b) % WordMod
AddOverflows(a, b) == a + b >= WordMod
WrapSub(a, b) == (a - b + WordMod) % WordMod
SubOverflows(a, b) == a < b

\* line 108: (stack_size + 15) / 16 * 16
AlignedStackSize(stack_size) == (WrapAdd(stack_size, Align - 1) \div Align) * Align

\* lines 122-126: the offset of the entry stack pointer
EntryOffset == IF env.ptr32 THEN Offset32 ELSE 0

\* a Boundary Prober that reports a limit on every platform
GuessAlwaysSome == Some(StackLowOf(tid))

\* lines 164-190: the Boundary Prober of the platform
guess_os_stack_limit == IF env.supported THEN Some(StackLowOf(tid)) ELSE None

\* an initialiser that runs on every access
AlwaysProbe == TRUE

\* lines 45-49: thread_local! runs the initialiser on the first access the
\* thread makes, and again on the next access when the initialiser panicked
NeedsProbe == ~probed

\* lines 51-53: STACK_LIMIT.with(|s| s.get())
get_stack_limit == IF NeedsProbe THEN guess_os_stack_limit ELSE STACK_LIMIT

\* a thread-local that counts as initialised once its initialiser was entered
InitialisedAlways(ok) == TRUE

\* lines 45-49: the thread-local is initialised when the initialiser has
\* returned its value (ok); a panic inside it leaves it as it was
InitialisedAfter(ok) == probed \/ ok

\* lines 169-176: the results the pthread calls behind the four assert_eq!
\* can have, all 0 (TRUE) or one not 0 (FALSE); the probes of the other
\* platforms (lines 162, 183, 188) report no error
ProbeOutcomes == IF NeedsProbe /\ env.supported THEN {TRUE, FALSE} ELSE {TRUE}

\* lines 51-53 and 45-49: one read of STACK_LIMIT by the running thread
ReadLimit(ok) ==
    /\ probes' = IF NeedsProbe THEN probes + 1 ELSE probes
    /\ probed' = InitialisedAfter(ok)
    /\ STACK_LIMIT' = IF ok THEN get_stack_limit ELSE STACK_LIMIT

\* ------------------------------------------------------------------------
\* Records
\* ------------------------------------------------------------------------
Ok(v) == [ok |-> TRUE, val |-> v, payload |-> ""]
Err(p) == [ok |-> FALSE, val |-> 0, payload |-> p]

\* a maybe_grow activation; the fields after `ret` only observe it.  The
\* argument stack_size is drawn where the code first reads it (line 108)
NewFrame(rz) ==
    [red_zone |-> rz, stack_size |-> 0, pc |-> "check", callSp |-> sp,
     remaining |-> 0, region |-> 0, ret |-> None,
     limitBefore |-> None, workCalls |-> 0, switches |-> 0, allocs |-> 0,
     allocFails |-> 0, reraises |-> 0, startSp |-> 0, startLimit |-> None, workRet |-> None]

NoFrame == [NewFrame(0) EXCEPT !.callSp = 0, !.pc = "none"]

Top == frames[Len(frames)]
Caller == SubSeq(frames, 1, Len(frames) - 1)
SetTop(f) == [frames EXCEPT ![Len(frames)] = f]

\* what the caller of an activation that ended sees, and the state it ended
\* in; regs are the Vecs as the activation leaves them
NoRegion == [base |-> 0, size |-> 0, frees |-> 0]
Ended(f, kind, result, regs) ==
    [kind |-> kind, result |-> result, frame |-> f,
     limitAfter |-> STACK_LIMIT,
     region |-> IF f.region = 0 THEN NoRegion ELSE regs[f.region]]
NoCall == [kind |-> "none", result |-> [ok |-> TRUE, val |-> 0, payload |-> ""],
           frame |-> NoFrame, limitAfter |-> None, region |-> NoRegion]
\* the Vecs that outlive activation f
Outliving(f, regs) == IF f.region = 0 THEN regs ELSE SubSeq(regs, 1, f.region - 1)

Running == status = "running"
Working == Running /\ unwinding = None /\ frames # <<>> /\ Top.pc \in {"direct", "grown"}

\* the lowest address of the stack the thread is executing on
OnGrown(i) == frames[i].pc \in {"grown", "caught"}
CurrentLow ==
    LET on == {i \in 1..Len(frames) : OnGrown(i)}
    IN  IF on = {} THEN StackLowOf(tid)
        ELSE LET i == CHOOSE j \in on : \A k \in on : k <= j
             IN  regions[frames[i].region].base

Init ==
    /\ env \in [overflowChecks : BOOLEAN, ptr32 : BOOLEAN, supported : BOOLEAN]
    /\ tid = "main"
    /\ parked = <<>>
    /\ probes = 0
    /\ probed = FALSE
    /\ STACK_LIMIT = None
    /\ sp \in InitialSps
    /\ frames = <<>>
    /\ regions = <<>>
    /\ unwinding = None
    /\ last = NoCall
    /\ calls = 0
    /\ overflowed = FALSE
    /\ status = "running"

\* ------------------------------------------------------------------------
\* The callers of maybe_grow
\* ------------------------------------------------------------------------
\* the thread's own code calls maybe_grow(red_zone, stack_size, f)
ClientCall(rz) ==
    /\ Running /\ unwinding = None /\ frames = <<>>
    /\ calls < MaxCalls
    /\ frames' = <<NewFrame(rz)>>
    /\ calls' = calls + 1
    /\ last' = NoCall
    /\ UNCHANGED <<env, tid, parked, probes, probed, STACK_LIMIT, sp, regions, unwinding, overflowed, status>>

\* a panic that left the outermost maybe_grow is caught by the thread's code
ClientCatch ==
    /\ Running /\ unwinding # None /\ frames = <<>>
    /\ unwinding' = None
    /\ UNCHANGED <<env, tid, parked, probes, probed, STACK_LIMIT, sp, frames, regions, last, calls, overflowed, status>>

\* the closure f calls maybe_grow itself
WorkCall(rz) ==
    /\ Working
    /\ calls < MaxCalls /\ Len(frames) < MaxDepth
    /\ frames' = Append(frames, NewFrame(rz))
    /\ calls' = calls + 1
    /\ last' = NoCall
    /\ UNCHANGED <<env, tid, parked, probes, probed, STACK_LIMIT, sp, regions, unwinding, overflowed, status>>

\* the closure f returns v: to maybe_grow's caller when it ran on the
\* current stack (lines 71, 76), into `ret` on a grown stack (line 97)
WorkReturn(v) ==
    /\ Working
    /\ IF Top.pc = "direct"
       THEN /\ frames' = Caller
            /\ sp' = Top.callSp
            /\ last' = Ended([Top EXCEPT !.workRet = Some(Ok(v))], "ok", Ok(v), regions)
       ELSE /\ frames' = SetTop([Top EXCEPT !.ret = Some(Ok(v)), !.workRet = Some(Ok(v)),
                                            !.pc = "caught"])
            /\ UNCHANGED <<sp, last>>
    /\ UNCHANGED <<env, tid, parked, probes, probed, STACK_LIMIT, regions, unwinding, calls, overflowed, status>>

\* the closure f panics with payload p
WorkPanic(p) ==
    /\ Working
    /\ unwinding' = Some(p)
    /\ UNCHANGED <<env, tid, parked, probes, probed, STACK_LIMIT, sp, frames, regions, last, calls, overflowed, status>>

\* the closure f catches the panic of a maybe_grow it called and goes on
WorkCatch ==
    /\ Running /\ unwinding # None /\ frames # <<>> /\ Top.pc \in {"direct", "grown"}
    /\ unwinding' = None
    /\ UNCHANGED <<env, tid, parked, probes, probed, STACK_LIMIT, sp, frames, regions, last, calls, overflowed, status>>

\* ------------------------------------------------------------------------
\* maybe_grow
\* ------------------------------------------------------------------------
InCall(pc) == Running /\ unwinding = None /\ frames # <<>> /\ Top.pc = pc

\* f() starts on the stack the thread is on
StartWork(f, pc, atSp, limit) ==
    [f EXCEPT !.pc = pc, !.workCalls = @ + 1, !.startSp = atSp, !.startLimit = limit]

\* lines 84-88: __stacker_stack_pointer() - limit; the subtraction panics
\* in a build with overflow checks and wraps in one without
remaining_stack_panics ==
    /\ get_stack_limit # None
    /\ SubOverflows(sp, Unwrap(get_stack_limit))
    /\ env.overflowChecks
remaining_stack ==
    IF get_stack_limit = None THEN None
    ELSE Some(WrapSub(sp, Unwrap(get_stack_limit)))

\* the comparison of line 70 made strict
EnoughStackStrict(remaining_stack_bytes, red_zone) == remaining_stack_bytes > red_zone
\* the comparison of line 70 dropped
EnoughStackAlways(remaining_stack_bytes, red_zone) == TRUE

\* line 70: remaining_stack_bytes >= red_zone
EnoughStack(remaining_stack_bytes, red_zone) == remaining_stack_bytes >= red_zone

\* lines 68-78: the checkpoint decision
Check ==
    /\ InCall("check")
    /\ \E ok \in ProbeOutcomes :
        /\ ReadLimit(ok)
        /\ LET f == [Top EXCEPT !.limitBefore = get_stack_limit]
           IN  IF ~ok
               THEN /\ unwinding' = Some("assert")
                    /\ UNCHANGED frames
               ELSE IF remaining_stack_panics
               THEN /\ unwinding' = Some("arith")
                    /\ frames' = SetTop(f)
               ELSE /\ UNCHANGED unwinding
                    /\ IF remaining_stack = None
                       THEN frames' = SetTop(StartWork(f, "direct", sp, get_stack_limit))
                       ELSE LET remaining_stack_bytes == Unwrap(remaining_stack)
                            IN  IF EnoughStack(remaining_stack_bytes, f.red_zone)
                                THEN frames' = SetTop(StartWork(f, "direct", sp,
                                                                get_stack_limit))
                                ELSE frames' = SetTop([f EXCEPT
                                                          !.remaining = remaining_stack_bytes,
                                                          !.pc = "alloc"])
    /\ UNCHANGED <<env, tid, parked, sp, regions, last, calls, overflowed, status>>

\* lines 84-88: the thread's code, or a closure f, calls remaining_stack()
RemainingStack ==
    /\ Running /\ unwinding = None
    /\ IF frames = <<>> THEN TRUE ELSE Top.pc \in {"direct", "grown"}
    /\ NeedsProbe => calls < MaxCalls
    /\ calls' = IF NeedsProbe THEN calls + 1 ELSE calls
    /\ \E ok \in ProbeOutcomes :
        /\ ReadLimit(ok)
        /\ unwinding' = IF ~ok THEN Some("assert")
                        ELSE IF remaining_stack_panics THEN Some("arith")
                        ELSE None
    /\ UNCHANGED <<env, tid, parked, sp, frames, regions, last, overflowed, status>>

\* the Vecs of all threads
AllRegions ==
    {regions[i] : i \in 1..Len(regions)} \cup
    UNION {{parked[t].regions[i] : i \in 1..Len(parked[t].regions)} : t \in DOMAIN parked}

\* the allocator can place a region of `size` bytes at `base`
Live(r) == r.frees = 0 /\ r.size > 0
FreeAt(base, size) ==
    /\ base + size <= WordMod
    /\ \A r \in AllRegions :
          Live(r) =>
              \/ base + size <= r.base
              \/ r.base + r.size <= base

\* lines 108-111: round the size and create the Vec
Alloc(ss) ==
    /\ InCall("alloc")
    /\ IF AddOverflows(ss, Align - 1) /\ env.overflowChecks
       THEN /\ unwinding' = Some("arith")
            /\ frames' = SetTop([Top EXCEPT !.stack_size = ss])
            /\ UNCHANGED regions
       ELSE LET stack_size == AlignedStackSize(ss)
                created == [Top EXCEPT !.stack_size = ss, !.region = Len(regions) + 1,
                                       !.allocs = @ + 1, !.pc = "setlimit"]
            IN  IF stack_size > ISizeMax
                THEN /\ unwinding' = Some("capacity")
                     /\ frames' = SetTop([Top EXCEPT !.stack_size = ss, !.allocFails = @ + 1])
                     /\ UNCHANGED regions
                ELSE IF stack_size = 0
                THEN /\ regions' = Append(regions, [base |-> DanglingPtr, size |-> 0, frees |-> 0])
                     /\ frames' = SetTop(created)
                     /\ UNCHANGED unwinding
                ELSE /\ \E base \in HeapBases :
                          /\ FreeAt(base, stack_size)
                          /\ regions' = Append(regions, [base |-> base, size |-> stack_size,
                                                         frees |-> 0])
                     /\ frames' = SetTop(created)
                     /\ UNCHANGED unwinding
    /\ UNCHANGED <<env, tid, parked, probes, probed, STACK_LIMIT, sp, last, calls, overflowed, status>>

\* an allocation error the process survives
AllocErrorIgnored == "running"

\* line 111: what Vec::with_capacity does when the allocator returns null:
\* the allocation error handler ends the process
OnAllocError == "aborted"

\* line 111: the allocator has no memory for the Vec
AllocFail(ss) ==
    /\ InCall("alloc")
    /\ ~(AddOverflows(ss, Align - 1) /\ env.overflowChecks)
    /\ AlignedStackSize(ss) \in 1..ISizeMax
    /\ status' = OnAllocError
    /\ frames' = SetTop([Top EXCEPT !.stack_size = ss, !.allocFails = @ + 1])
    /\ UNCHANGED <<env, tid, parked, probes, probed, STACK_LIMIT, sp, regions, unwinding, last, calls, overflowed>>

TopRegion == regions[Top.region]

\* lines 112-115: new_limit = stack.as_ptr() + 32 * 1024; set_stack_limit(new_limit)
SetNewLimit ==
    /\ InCall("setlimit")
    /\ IF AddOverflows(TopRegion.base, GuardOffset) /\ env.overflowChecks
       THEN /\ unwinding' = Some("arith")
            /\ UNCHANGED <<STACK_LIMIT, frames>>
       ELSE /\ STACK_LIMIT' = Some(WrapAdd(TopRegion.base, GuardOffset))
            /\ frames' = SetTop([Top EXCEPT !.pc = "switch"])
            /\ UNCHANGED unwinding
    /\ UNCHANGED <<env, tid, parked, probes, probed, sp, regions, last, calls, overflowed, status>>

\* line 127: stack.as_mut_ptr() as usize + stack_size - offset
EntrySpPanics ==
    /\ env.overflowChecks
    /\ \/ AddOverflows(TopRegion.base, TopRegion.size)
       \/ SubOverflows(WrapAdd(TopRegion.base, TopRegion.size), EntryOffset)
EntrySp == WrapSub(WrapAdd(TopRegion.base, TopRegion.size), EntryOffset)

\* lines 122-129 and 135-137, 95-97: __stacker_switch_stacks moves the stack
\* pointer to the entry address and calls doit, which calls f.  An empty Vec
\* owns no memory: running on it is undefined, the process is killed or
\* runs on over foreign memory
Switch ==
    /\ InCall("switch")
    /\ IF EntrySpPanics
       THEN /\ unwinding' = Some("arith")
            /\ UNCHANGED <<sp, frames, overflowed, status>>
       ELSE /\ UNCHANGED unwinding
            /\ sp' = EntrySp
            /\ frames' = SetTop(StartWork([Top EXCEPT !.switches = @ + 1], "grown",
                                          EntrySp, STACK_LIMIT))
            /\ IF TopRegion.size > 0
               THEN UNCHANGED <<overflowed, status>>
               ELSE \/ status' = "crashed" /\ UNCHANGED overflowed
                    \/ overflowed' = TRUE /\ UNCHANGED status
    /\ UNCHANGED <<env, tid, parked, probes, probed, STACK_LIMIT, regions, last, calls>>

\* line 97: catch_unwind stops the panic of f on the grown stack
Catch ==
    /\ Running /\ unwinding # None /\ frames # <<>> /\ Top.pc = "grown"
    /\ frames' = SetTop([Top EXCEPT !.ret = Some(Err(Unwrap(unwinding))),
                                    !.workRet = Some(Err(Unwrap(unwinding))),
                                    !.pc = "caught"])
    /\ unwinding' = None
    /\ UNCHANGED <<env, tid, parked, probes, probed, STACK_LIMIT, sp, regions, last, calls, overflowed, status>>

\* line 129 returns: __stacker_switch_stacks puts the stack pointer back
SwitchBack ==
    /\ InCall("caught")
    /\ sp' = Top.callSp
    /\ frames' = SetTop([Top EXCEPT !.pc = "restore"])
    /\ UNCHANGED <<env, tid, parked, probes, probed, STACK_LIMIT, regions, unwinding, last, calls, overflowed, status>>

\* line 133: set_stack_limit(old_limit), where the caller (lines 73, 95)
\* passed remaining_stack_bytes as old_limit
RestoredLimit(f) == f.remaining

Restore ==
    /\ InCall("restore")
    /\ STACK_LIMIT' = Some(RestoredLimit(Top))
    /\ frames' = SetTop([Top EXCEPT !.pc = "free"])
    /\ UNCHANGED <<env, tid, parked, probes, probed, sp, regions, unwinding, last, calls, overflowed, status>>

\* `stack` leaked instead of dropped
NotDropped(r) == regions

\* line 138: `stack` goes out of scope
Dropped(r) == [regions EXCEPT ![r].frees = @ + 1]

FreeStack ==
    /\ InCall("free")
    /\ regions' = Dropped(Top.region)
    /\ frames' = SetTop([Top EXCEPT !.pc = "resume"])
    /\ UNCHANGED <<env, tid, parked, probes, probed, STACK_LIMIT, sp, unwinding, last, calls, overflowed, status>>

\* a result that is not the one f left in `ret`
StaleResult(f) == [ok |-> TRUE, val |-> 0, payload |-> ""]

\* line 100: ret.unwrap()
ResultOf(f) == Unwrap(f.ret)

\* lines 100-103: hand the result of f to the caller
Resume ==
    /\ InCall("resume")
    /\ LET ret == ResultOf(Top)
       IN  IF ret.ok
           THEN /\ frames' = Caller
                /\ last' = Ended(Top, "ok", ret, regions)
                /\ regions' = Outliving(Top, regions)
                /\ UNCHANGED unwinding
           ELSE /\ unwinding' = Some(ret.payload)
                /\ frames' = SetTop([Top EXCEPT !.pc = "reraised", !.reraises = @ + 1])
                /\ UNCHANGED <<last, regions>>
    /\ UNCHANGED <<env, tid, parked, probes, probed, STACK_LIMIT, sp, calls, overflowed, status>>

\* a panic leaves a maybe_grow activation on the stack it was called on:
\* the locals of its frames are dropped, `stack` among them if it exists
Unwind ==
    /\ Running /\ unwinding # None /\ frames # <<>> /\ Top.pc # "grown"
    /\ LET f == IF Top.pc = "direct"
                THEN [Top EXCEPT !.workRet = Some(Err(Unwrap(unwinding)))]
                ELSE Top
           regs == IF Top.pc \in {"setlimit", "switch"} THEN Dropped(Top.region)
                   ELSE regions
       IN  /\ frames' = Caller
           /\ sp' = Top.callSp
           /\ regions' = Outliving(Top, regs)
           /\ last' = Ended(f, "panic", Err(Unwrap(unwinding)), regs)
    /\ UNCHANGED <<env, tid, parked, probes, probed, STACK_LIMIT, unwinding, calls, overflowed, status>>

Next ==
    \/ \E rz \in RedZones : ClientCall(rz)
    \/ ClientCatch
    \/ \E rz \in RedZones : WorkCall(rz)
    \/ \E v \in Values : WorkReturn(v)
    \/ \E p \in Payloads : WorkPanic(p)
    \/ WorkCatch
    \/ Check
    \/ RemainingStack
    \/ \E ss \in StackSizes : Alloc(ss)
    \/ \E ss \in StackSizes : AllocFail(ss)
    \/ SetNewLimit
    \/ Switch
    \/ Catch
    \/ SwitchBack
    \/ Restore
    \/ FreeStack
    \/ Resume
    \/ Unwind

Spec == Init /\ [][Next]_vars

\* ------------------------------------------------------------------------
\* The deep recursion on a supported platform:
\*   fn recurse(n) { if n == 0 { 0 }
\*                   else { maybe_grow(32 * 1024, 1024 * 1024, || 1 + recurse(n - 1)) } }
\* called as recurse(DeepLevels) from the top of the OS stack; every region
\* asked for is allocated
\* ------------------------------------------------------------------------
InitDeep ==
    /\ env \in [overflowChecks : BOOLEAN, ptr32 : BOOLEAN, supported : {TRUE}]
    /\ tid = "main"
    /\ parked = <<>>
    /\ probes = 0
    /\ probed = FALSE
    /\ STACK_LIMIT = None
    /\ sp = OsStackTop
    /\ frames = <<>>
    /\ regions = <<>>
    /\ unwinding = None
    /\ last = NoCall
    /\ calls = 0
    /\ overflowed = FALSE
    /\ status = "running"

\* recurse(n), n > 0, pushes d bytes and calls maybe_grow; every level of
\* the one function pushes the same number of bytes
DeepCall(d) ==
    /\ Running /\ unwinding = None
    /\ \/ frames = <<>> /\ calls = 0
       \/ Working /\ last.kind = "none" /\ d = OsStackTop - frames[1].callSp
    /\ Len(frames) < DeepLevels
    /\ IF sp - d >= CurrentLow
       THEN /\ sp' = sp - d
            /\ frames' = Append(frames, [NewFrame(DeepRedZone) EXCEPT !.callSp = sp - d])
            /\ calls' = calls + 1
            /\ UNCHANGED <<overflowed, status>>
       ELSE \/ /\ status' = "crashed"
               /\ UNCHANGED <<sp, frames, calls, overflowed>>
            \/ /\ sp - d >= 0
               /\ sp' = sp - d
               /\ frames' = Append(frames, [NewFrame(DeepRedZone) EXCEPT !.callSp = sp - d])
               /\ calls' = calls + 1
               /\ overflowed' = TRUE
               /\ UNCHANGED status
    /\ UNCHANGED <<env, tid, parked, probes, probed, STACK_LIMIT, regions, unwinding, last>>

\* the closure returns 1 + recurse(n - 1): recurse(0) is 0, and the value of
\* a maybe_grow that returned is in `last`
DeepReturn ==
    \/ Len(frames) = DeepLevels /\ WorkReturn(1)
    \/ last.kind = "ok" /\ WorkReturn(last.result.val + 1)

\* the checkpoint of a level; the prober of the platform reports no error
DeepCheck == Check /\ unwinding' = None

NextDeep ==
    \/ \E d \in DeepUses : DeepCall(d)
    \/ DeepReturn
    \/ DeepCheck
    \/ Alloc(DeepStackSize)
    \/ SetNewLimit
    \/ Switch
    \/ SwitchBack
    \/ Restore
    \/ FreeStack
    \/ Resume

SpecDeep == InitDeep /\ [][NextDeep]_vars

\* ------------------------------------------------------------------------
\* Several threads.  STACK_LIMIT is a thread_local! (lines 45-49): every
\* thread has its own cell, and its own stack pointer, activations and
\* panic.  The variables above hold those of the running thread, `parked`
\* those of the others; the scheduler may switch threads between any two
\* steps.  The threads share the heap and the bound on the calls.
\* ------------------------------------------------------------------------
\* inputs of the calls the threads make
ThreadRedZones == {0, 64 * KiB}
ThreadStackSizes == {96 * KiB}

\* what a thread keeps while another one runs
Context ==
    [probes |-> probes, probed |-> probed, STACK_LIMIT |-> STACK_LIMIT, sp |-> sp,
     frames |-> frames, regions |-> regions, unwinding |-> unwinding, last |-> last]
\* a thread that has not called into the crate yet
NewThread(t) ==
    [probes |-> 0, probed |-> FALSE, STACK_LIMIT |-> None, sp |-> StackLowOf(t) + 40 * KiB,
     frames |-> <<>>, regions |-> <<>>, unwinding |-> None, last |-> NoCall]

InitThreads ==
    /\ env \in [overflowChecks : BOOLEAN, ptr32 : BOOLEAN, supported : BOOLEAN]
    /\ tid = "main"
    /\ probes = 0
    /\ probed = FALSE
    /\ STACK_LIMIT = None
    /\ sp \in InitialSps
    /\ frames = <<>>
    /\ regions = <<>>
    /\ unwinding = None
    /\ last = NoCall
    /\ calls = 0
    /\ overflowed = FALSE
    /\ status = "running"
    /\ parked = [t \in Threads \ {"main"} |-> NewThread(t)]

\* a plain static: one cell for all threads
ProcessWide(own, running) == running

\* lines 45-49: thread_local!: the cell a thread reads and writes is its own
ThreadLocal(own, running) == own

\* the scheduler lets thread t run
Yield(t) ==
    /\ Running
    /\ t \in DOMAIN parked
    /\ tid' = t
    /\ parked' = [u \in (DOMAIN parked \ {t}) \cup {tid} |->
                     IF u = tid THEN Context ELSE parked[u]]
    /\ probes' = parked[t].probes
    /\ probed' = parked[t].probed
    /\ STACK_LIMIT' = ThreadLocal(parked[t].STACK_LIMIT, STACK_LIMIT)
    /\ sp' = parked[t].sp
    /\ frames' = parked[t].frames
    /\ regions' = parked[t].regions
    /\ unwinding' = parked[t].unwinding
    /\ last' = parked[t].last
    /\ UNCHANGED <<env, calls, overflowed, status>>

NextThreads ==
    \/ \E t \in Threads : Yield(t)
    \/ \E rz \in ThreadRedZones : ClientCall(rz)
    \/ ClientCatch
    \/ \E rz \in ThreadRedZones : WorkCall(rz)
    \/ \E v \in Values : WorkReturn(v)
    \/ Check
    \/ RemainingStack
    \/ \E ss \in ThreadStackSizes : Alloc(ss)
    \/ SetNewLimit
    \/ Switch
    \/ SwitchBack
    \/ Restore
    \/ FreeStack
    \/ Resume
    \/ Unwind

SpecThreads == InitThreads /\ [][NextThreads]_vars

\* ------------------------------------------------------------------------
\* Properties
\* ------------------------------------------------------------------------
Active == {frames[i] : i \in 1..Len(frames)}
\* the activations in progress and the one that ended last
Observed == Active \cup (IF last.kind = "none" THEN {} ELSE {last.frame})
\* f() is running or has run in activation f
WorkStarted(f) == f.workCalls > 0
\* _grow_the_stack has returned in activation f
SwitcherReturned(f) == f.pc \in {"resume", "reraised"}
\* the limit was present when activation f read it and the subtraction of
\* remaining_stack gave a value
Measured(f) ==
    /\ f.pc \notin {"check", "none"}
    /\ IsSome(f.limitBefore)
    /\ ~(env.overflowChecks /\ SubOverflows(f.callSp, Unwrap(f.limitBefore)))
RemainingAtCall(f) == WrapSub(f.callSp, Unwrap(f.limitBefore))

\* a request a grown stack can serve: the region holds the guard offset and
\* the red zone is no larger than the stack asked for
Servable(f) ==
    f.region # 0 => (f.stack_size \in (GuardOffset + 1)..ISizeMax /\ f.red_zone <= f.stack_size)

\* C1: with a limit present, when work starts the stack pointer is at least
\* red_zone bytes above the tracked limit, on the current stack and on a
\* grown one alike (stated for the requests a grown stack can serve, before
\* any stack has been overrun).
C1_RedZoneAtWorkStart ==
    \A f \in Observed :
        (WorkStarted(f) /\ IsSome(f.startLimit) /\ Servable(f) /\ ~overflowed)
            => f.startSp - Unwrap(f.startLimit) >= f.red_zone

\* C2: once _grow_the_stack has returned, after a normal return of work or
\* after a panic of work, the tracked limit is the one the thread had when
\* maybe_grow was called (stated for the requests a grown stack can serve,
\* before any stack has been overrun).
C2_LimitRestored ==
    /\ \A f \in Active :
          (SwitcherReturned(f) /\ Servable(f) /\ ~overflowed)
              => STACK_LIMIT = f.limitBefore
    /\ (last.kind # "none" /\ SwitcherReturned(last.frame)
           /\ Servable(last.frame) /\ ~overflowed)
           => last.limitAfter = last.frame.limitBefore

\* C3: a panic of work on a grown stack is caught there; maybe_grow raises
\* the same payload again once, on the stack it was called on, with the
\* grown region released and the tracked limit back at its earlier value.
C3_PanicReraisedAfterCleanup ==
    /\ \A i \in 1..Len(frames) :
          (unwinding # None /\ i < Len(frames)) => frames[i].pc # "caught"
    /\ \A f \in Active :
          (f.pc = "reraised" /\ Servable(f) /\ ~overflowed) =>
              /\ unwinding = Some(Unwrap(f.workRet).payload)
              /\ ~Unwrap(f.workRet).ok
              /\ f.reraises = 1
              /\ sp = f.callSp
              /\ regions[f.region].frees = 1
              /\ STACK_LIMIT = f.limitBefore

\* the part of C3 the code keeps: caught on the grown stack, raised again
\* once with the same payload on the calling stack after the Vec is dropped
PanicReraisedOnce ==
    \A f \in Active :
        /\ f.reraises <= 1
        /\ f.pc = "reraised" =>
              /\ unwinding = Some(Unwrap(f.workRet).payload)
              /\ f.reraises = 1
              /\ sp = f.callSp
              /\ regions[f.region].frees = 1


\* C4: every Vec created for a switch is dropped once on the way out of
\* _grow_the_stack, after a return and after a panic of work alike, before
\* maybe_grow returns or raises again, and never while work is on it.
Owners == {i \in 1..Len(frames) : frames[i].region # 0}
C4_RegionReleasedOnce ==
    /\ Len(regions) = Cardinality(Owners)
    /\ \A i \in Owners : frames[i].region \in 1..Len(regions)
    /\ \A i, j \in Owners : frames[i].region = frames[j].region => i = j
    /\ \A i \in Owners :
          /\ regions[frames[i].region].frees = (IF SwitcherReturned(frames[i]) THEN 1 ELSE 0)
          /\ i < Len(frames) => (frames[i].pc = "grown" /\ regions[frames[i].region].frees = 0)
    /\ (last.kind # "none" /\ last.frame.region # 0) => last.region.frees = 1

\* a panic of work on a grown stack has left maybe_grow, the region dropped once
C4_Witness ==
    /\ last.kind = "panic" /\ last.frame.pc = "reraised"
    /\ last.region.size > 0 /\ last.region.frees = 1
    /\ ~overflowed

\* C5: the deep recursion never leaves the stack it runs on, never stops
\* short of the end, and returns the number of its levels.
DeepDone == frames = <<>> /\ calls = DeepLevels
C5_DeepRecursionCompletes ==
    /\ sp >= CurrentLow
    /\ ~overflowed /\ status = "running" /\ unwinding = None
    /\ DeepDone \/ ENABLED NextDeep
    /\ DeepDone => (last.kind = "ok" /\ last.result.val = DeepLevels)

\* the recursion returned its count although its frames alone are larger
\* than the OS stack
C5_Witness ==
    /\ DeepDone
    /\ last.result.val = DeepLevels
    /\ DeepLevels * (OsStackTop - last.frame.callSp) > OsStackTop - OsStackLow

\* C6: with a limit present and red_zone <= remaining_stack() at the call,
\* work runs where the caller was: no Vec, no switch, the limit as it was read.
C6_EnoughStackRunsInPlace ==
    \A f \in Observed :
        (Measured(f) /\ f.red_zone <= RemainingAtCall(f)) =>
            /\ f.pc = "direct"
            /\ f.workCalls = 1
            /\ f.allocs = 0 /\ f.switches = 0 /\ f.region = 0
            /\ f.startSp = f.callSp
            /\ f.startLimit = f.limitBefore
            \* no call made by work has ended yet: the limit is as it was read
            /\ (frames # <<>> /\ f = Top /\ last.kind = "none") => STACK_LIMIT = f.limitBefore

\* a call whose red zone is exactly the remaining stack has run work in place
C6_Witness ==
    /\ last.kind = "ok"
    /\ Measured(last.frame)
    /\ last.frame.red_zone > 0
    /\ last.frame.red_zone = RemainingAtCall(last.frame)
    /\ last.frame.workCalls = 1

\* the call found less stack than its red zone
Short(f) == Measured(f) /\ f.red_zone > RemainingAtCall(f)
\* the panics of maybe_grow's own arithmetic and of Vec::with_capacity
OwnPanic == last.kind = "panic" /\ last.result.payload \in {"arith", "capacity"}
\* the panic of an assert_eq! of the prober
ProbePanic == last.kind = "panic" /\ last.result.payload = "assert"

\* C7 as stated: a call that found less stack than its red zone has made one
\* Vec and one switch when it ends (stated for sizes whose rounding does
\* not overflow).
C7_ExactlyOneSwitch ==
    (last.kind # "none" /\ Short(last.frame)
        /\ ~AddOverflows(last.frame.stack_size, Align - 1))
        => (last.frame.switches = 1 /\ last.frame.allocs = 1)

\* C7 amended: a call that found less stack than its red zone never runs
\* work in place and makes at most one Vec and at most one switch; work
\* starts only after one of each; a call that ends without a switch ends by
\* a panic of the size arithmetic or of the allocation.
C7_AtMostOneSwitch ==
    /\ \A f \in Observed :
          Short(f) =>
              /\ f.pc # "direct"
              /\ f.allocs <= 1 /\ f.switches <= f.allocs
              /\ WorkStarted(f) => (f.switches = 1 /\ f.allocs = 1)
    /\ (last.kind # "none" /\ Short(last.frame)) =>
          IF last.frame.switches = 1
          THEN SwitcherReturned(last.frame)
          ELSE OwnPanic

\* a call that found less stack than its red zone returned after one switch
C7_Witness ==
    /\ last.kind = "ok" /\ Short(last.frame)
    /\ last.frame.switches = 1 /\ last.frame.allocs = 1
    /\ last.region.size > 0
    /\ ~overflowed

\* C8: on a platform without a prober the limit stays absent,
\* remaining_stack() is None and every call runs work in place, whatever
\* the red zone.
C8_UnsupportedNeverGrows ==
    ~env.supported =>
        /\ STACK_LIMIT = None
        /\ remaining_stack = None
        /\ regions = <<>>
        /\ \A f \in Observed :
              /\ f.pc \in {"check", "direct"}
              /\ f.allocs = 0 /\ f.switches = 0
              /\ f.pc = "direct" => (f.workCalls = 1 /\ f.startSp = f.callSp)

\* the second call on such a platform, with red zone 0, returned
C8_Witness ==
    /\ ~env.supported
    /\ calls = 2
    /\ last.kind = "ok" /\ last.frame.red_zone = 0 /\ last.frame.workCalls = 1

\* C9: the Vec made for a request is a multiple of 16 bytes long and at
\* least as long as the request.
C9_RegionSizeAligned ==
    \A f \in Active :
        f.region # 0 =>
            /\ regions[f.region].size % Align = 0
            /\ regions[f.region].size >= f.stack_size

\* C10 as stated: every call that ends has run work once, and a value work
\* returned is the value of the call (stated for the calls that do not end
\* by an arithmetic panic or by a panic of the prober).
C10_WorkRunsOnce ==
    (last.kind # "none" /\ last.result.payload \notin {"arith", "assert"}) =>
        /\ last.frame.workCalls = 1
        /\ Unwrap(last.frame.workRet).ok =>
              (last.kind = "ok" /\ last.result = Unwrap(last.frame.workRet))

\* C10 amended: a call runs work at most once, and once before it returns
\* or hands on a panic of work; the value work returned is the value of the
\* call; a call that never ran work ends by a panic of the size arithmetic,
\* of the allocation or of the prober.
C10_WorkAtMostOnce ==
    /\ \A f \in Observed :
          /\ f.workCalls <= 1
          /\ f.workCalls = 0 <=> f.pc \in {"check", "alloc", "setlimit", "switch"}
          /\ f.pc \in {"caught", "restore", "free", "resume"} => f.ret = f.workRet
    /\ last.kind = "ok" =>
          /\ last.frame.workCalls = 1
          /\ last.frame.workRet = Some(last.result)
          /\ last.result.ok
    /\ (last.kind = "panic" /\ last.frame.workCalls = 1) =>
          last.frame.workRet = Some(last.result)
    /\ (last.kind # "none" /\ last.frame.workCalls = 0) => (OwnPanic \/ ProbePanic)

\* a call that switched stacks returned the 11 that work returned
C10_Witness ==
    /\ last.kind = "ok" /\ last.frame.switches = 1
    /\ last.result.val = 11
    /\ last.region.size > 0
    /\ ~overflowed

\* C11: every thread has its own tracked limit: a step of one thread, a
\* switch or a restore among them, leaves the limit, the stack pointer and
\* the activations (with the decisions their checkpoints took) of every
\* other thread as they were, and the scheduler hands each thread back
\* exactly what it left.
CtxOf(t) == IF t = tid THEN Context ELSE parked[t]
C11_ThreadLimitsIndependent ==
    [][\A t \in Threads : (t # tid \/ tid' # tid) => CtxOf(t)' = CtxOf(t)]_vars

\* the main thread is held in the middle of a switch, its limit in its
\* grown region, while the worker has taken a checkpoint against the limit
\* of its own OS stack
C11_Witness ==
    /\ tid = "worker"
    /\ parked["main"].frames # <<>>
    /\ parked["main"].frames[1].pc = "grown"
    /\ parked["main"].STACK_LIMIT =
           Some(parked["main"].regions[1].base + GuardOffset)
    /\ frames # <<>>
    /\ Top.limitBefore = Some(StackLowOf("worker"))
    /\ Top.pc = "alloc"
    /\ STACK_LIMIT = Some(StackLowOf("worker"))

\* the boundary _grow_the_stack computes for the Vec of activation f
NewLimitOf(f) == Some(regions[f.region].base + GuardOffset)
\* work of the innermost activation is on its grown stack, no call made by
\* it in progress
OnGrownOutsideNested(i) == i = Len(frames) /\ frames[i].pc \in {"grown", "caught"}

\* C12: the limit is set to the new boundary before the switch, is the
\* lowest address of the grown region plus 32 KiB for as long as work runs
\* on the grown stack outside any nested switch, and is changed back only
\* after the switch has returned (stated for the requests a grown stack can
\* serve, before any stack has been overrun).
C12_LimitIsNewBoundaryDuringWork ==
    \A i \in 1..Len(frames) :
        (frames[i].region # 0 /\ ~overflowed /\ unwinding = None
            /\ (\A f \in Observed : Servable(f))) =>
            /\ frames[i].pc = "switch" => STACK_LIMIT = NewLimitOf(frames[i])
            /\ OnGrownOutsideNested(i) => STACK_LIMIT = NewLimitOf(frames[i])

\* the part of C12 the code keeps: the same, as long as no call made by
\* work on the grown stack has switched stacks itself
LimitIsNewBoundaryUntilNestedSwitch ==
    \A i \in 1..Len(frames) :
        (frames[i].region # 0 /\ ~overflowed /\ unwinding = None
            /\ (\A f \in Observed : Servable(f))
            /\ (last.kind = "none" \/ last.frame.switches = 0)) =>
            /\ frames[i].pc = "switch" => STACK_LIMIT = NewLimitOf(frames[i])
            /\ OnGrownOutsideNested(i) => STACK_LIMIT = NewLimitOf(frames[i])

\* C13: a Vec that cannot be allocated (no memory, or a size above
\* isize::MAX) ends the process or raises a panic out of maybe_grow; the
\* call does not try again, does not run work, does not switch stacks, and
\* leaves the tracked limit as the call found it.
C13_AllocFailureIsFatal ==
    /\ \A i \in 1..Len(frames) :
          frames[i].allocFails > 0 =>
              /\ i = Len(frames)
              /\ frames[i].pc = "alloc"
              /\ status = "aborted" \/ unwinding = Some("capacity")
              /\ STACK_LIMIT = frames[i].limitBefore
    /\ (last.kind # "none" /\ last.frame.allocFails > 0) =>
          /\ last.kind = "panic" /\ last.result.payload = "capacity"
          /\ last.limitAfter = last.frame.limitBefore
    /\ \A f \in Observed :
          f.allocFails > 0 =>
              /\ f.allocFails = 1
              /\ f.workCalls = 0 /\ f.switches = 0
              /\ f.allocs = 0 /\ f.region = 0

\* work on a grown stack called maybe_grow, whose Vec could not be
\* allocated: the process has ended, the limit still that of the grown stack
C13_Witness ==
    /\ status = "aborted"
    /\ Len(frames) = 2
    /\ Top.allocFails = 1 /\ Top.workCalls = 0
    /\ frames[1].pc = "grown"
    /\ STACK_LIMIT = NewLimitOf(frames[1])

\* C14 as stated: however many calls of maybe_grow and remaining_stack the
\* thread makes, it runs the prober once, on the first read of the limit,
\* and never again.
C14_ProbedExactlyOnce ==
    /\ probes <= 1
    /\ probed => probes = 1

\* C14 amended: the prober runs on the first read of the limit and, as long
\* as it has panicked every time, on the next read again; once it has
\* returned a limit, present or absent, it never runs again, every later
\* read returns the cell as it is, and only the thread's own switches and
\* restores write the cell.
C14_ProbedOnceReturned ==
    [][/\ probed => (probed' /\ probes' = probes)
       /\ ~probed => probes' \in {probes, probes + 1}
       /\ (~probed /\ probed') => (probes' = probes + 1 /\ STACK_LIMIT' = guess_os_stack_limit)
       /\ (~probed /\ ~probed') => STACK_LIMIT' = STACK_LIMIT
       /\ (probed /\ InCall("check")) => frames'[Len(frames)].limitBefore = STACK_LIMIT
       /\ (probed /\ STACK_LIMIT' # STACK_LIMIT) =>
              (frames # <<>> /\ Top.pc \in {"setlimit", "restore"})
      ]_vars

\* a second call has read the limit the switch of the first call left
\* behind, without a second run of the prober
C14_Witness ==
    /\ calls = 2 /\ probes = 1 /\ probed
    /\ Len(frames) = 1 /\ Top.pc \in {"direct", "alloc"}
    /\ IsSome(Top.limitBefore)
    /\ Top.limitBefore # guess_os_stack_limit
    /\ Top.limitBefore = STACK_LIMIT

\* runs of the prober that ended in a failed assert_eq!
FailedProbes == probes - (IF probed THEN 1 ELSE 0)

\* C15 as stated: after a query of the prober has reported an error the
\* process ends: the panic of the assertion is never stopped, no limit is
\* cached and no work runs.
C15_ProbeFailureAborts ==
    FailedProbes > 0 =>
        /\ status = "aborted" \/ unwinding = Some("assert")
        /\ ~probed /\ STACK_LIMIT = None
        /\ \A f \in Observed : f.workCalls = 0

\* C15 amended: a query of the prober that reports an error raises a panic
\* out of the call that read the limit: the cell stays uninitialised and
\* empty, that call runs no work, allocates nothing and switches no stack;
\* the thread goes on if its code catches the panic.
C15_ProbeFailurePanics ==
    /\ FailedProbes > 0 => env.supported
    /\ ~probed => (STACK_LIMIT = None /\ \A f \in Active : f.pc = "check")
    /\ unwinding = Some("assert") =>
          /\ ~probed /\ FailedProbes > 0
          /\ status = "running"
          /\ Len(frames) <= 1
    /\ ProbePanic =>
          /\ last.frame.pc = "check"
          /\ last.frame.workCalls = 0 /\ last.frame.allocs = 0 /\ last.frame.switches = 0
          /\ last.limitAfter = None

\* after a failed probe the thread caught the panic and called maybe_grow
\* again: the prober ran a second time and work returned
C15_Witness ==
    /\ FailedProbes = 1 /\ probed /\ probes = 2
    /\ IsSome(STACK_LIMIT)
    /\ last.kind = "ok" /\ last.frame.workCalls = 1
    /\ last.frame.limitBefore = Some(OsStackLow)

\* C16: whatever stack_size was asked for, when the stacks are switched the
\* new limit and the entry stack pointer are addresses of the Vec and the
\* limit is below the entry stack pointer (stated for the sizes a Vec can
\* have: not 0 after rounding, not above isize::MAX).
C16_LimitAndEntryInsideRegion ==
    \A f \in Active :
        (f.pc = "grown" /\ f.workRet = None /\ regions[f.region].size \in 1..ISizeMax
            /\ f.stack_size <= regions[f.region].size) =>
            LET r == regions[f.region]
                limit == Unwrap(f.startLimit)
            IN  /\ r.base <= limit /\ limit < r.base + r.size
                /\ r.base <= f.startSp /\ f.startSp <= r.base + r.size
                /\ limit < f.startSp

\* the part of C16 the code keeps: the same for the sizes that leave room
\* above the 32 KiB of line 112
LimitAndEntryInsideLargeRegion ==
    \A f \in Active :
        (f.pc = "grown" /\ f.workRet = None /\ regions[f.region].size \in 1..ISizeMax
            /\ f.stack_size <= regions[f.region].size
            /\ f.stack_size > GuardOffset) =>
            LET r == regions[f.region]
                limit == Unwrap(f.startLimit)
            IN  /\ r.base <= limit /\ limit < r.base + r.size
                /\ r.base <= f.startSp /\ f.startSp <= r.base + r.size
                /\ limit < f.startSp

\* the thread is where it can enter maybe_grow or remaining_stack, or has
\* just entered maybe_grow
EntryPoint ==
    /\ Running /\ unwinding = None
    /\ IF frames = <<>> THEN TRUE ELSE Top.pc \in {"check", "direct", "grown"}
\* one past the highest address of the stack the thread is executing on
CurrentHigh ==
    LET on == {i \in 1..Len(frames) : OnGrown(i)}
    IN  IF on = {} THEN StackLowOf(tid) + (OsStackTop - OsStackLow)
        ELSE LET i == CHOOSE j \in on : \A k \in on : k <= j
             IN  regions[frames[i].region].base + regions[frames[i].region].size
\* every maybe_grow call the thread has made is in progress or ended last,
\* and each stack_size read so far exceeds 32 KiB
AllSizesAboveGuard ==
    /\ calls = Len(frames) + (IF last.kind = "none" THEN 0 ELSE 1)
    /\ \A f \in Observed : f.pc \in {"check", "direct", "alloc"} \/ f.stack_size > GuardOffset

\* C17: as long as every stack_size asked for exceeds 32 KiB, wherever the
\* thread enters maybe_grow or remaining_stack with a limit present, also
\* after a switch has returned, the limit is an address of the stack the
\* thread is executing on.
C17_LimitInsideCurrentRegion ==
    (EntryPoint /\ probed /\ IsSome(STACK_LIMIT) /\ AllSizesAboveGuard /\ ~overflowed) =>
        /\ CurrentLow <= Unwrap(STACK_LIMIT)
        /\ Unwrap(STACK_LIMIT) < CurrentHigh

\* the part of C17 the code keeps: the same until the first switch of the
\* thread has returned
LimitInsideRegionUntilRestore ==
    (EntryPoint /\ probed /\ IsSome(STACK_LIMIT) /\ AllSizesAboveGuard /\ ~overflowed
        /\ (last.kind = "none" \/ last.frame.switches = 0)) =>
        /\ CurrentLow <= Unwrap(STACK_LIMIT)
        /\ Unwrap(STACK_LIMIT) < CurrentHigh

\* C18: wherever remaining_stack() is evaluated with a limit present, on
\* the OS stack, in work on a grown stack of any size asked for, or after a
\* switch has returned, the stack pointer is not below the limit: the
\* subtraction of line 86 does not wrap (stated before any stack has been
\* overrun).
C18_NoUnderflowInRemainingStack ==
    (EntryPoint /\ IsSome(get_stack_limit) /\ ~overflowed) =>
        ~SubOverflows(sp, Unwrap(get_stack_limit))

\* the same for the threads whose every stack_size exceeded 32 KiB
NoUnderflowAboveGuard ==
    (EntryPoint /\ IsSome(get_stack_limit) /\ ~overflowed /\ AllSizesAboveGuard) =>
        ~SubOverflows(sp, Unwrap(get_stack_limit))

====
